---- MODULE Spec2Model ----
(***************************************************************************)
(* cloudflare_logpush_setup.py as a state machine: one run of the script,  *)
(* from argument parsing to the summary or sys.exit.  The program is       *)
(* sequential; every action is one step of it, and every outbound HTTP     *)
(* call is one action whose response is chosen by the environment.         *)
(*                                                                         *)
(* JSON objects are records whose keys may be missing (dict.get with a     *)
(* default is Get).  Responses follow the API's envelope: an object with   *)
(* optional success / result / result_info / errors, errors a list of      *)
(* objects with a code.  A body that is not JSON raises inside the try     *)
(* blocks and is the exc response.                                         *)
(***************************************************************************)
EXTENDS Integers, Sequences, FiniteSets, TLC

\* ------------------------------------------------------------------ bounds

\* Largest total_pages a zone-listing response reports under Spec.
MaxPages == 2

\* ------------------------------------------------- configuration and inputs

\* os.getenv of an unset variable (None).
Unset == "<unset>"

Tokens == {Unset, "", "tok"}

Destinations == {Unset, "https://logs.example.com/ingest"}

\* LOGPUSH_DATASET after split(','): the fields, in order.
DatasetInputs ==
    { <<"http_requests">>,
      <<"http_requests", " dns_logs ">>,
      <<"http_requests", "", "http_requests">>,
      <<" ">>,
      <<"http_requests", "bogus">> }

\* What the user types at the delete prompt.
ConfirmInputs == {"DELETE", "delete", "", "yes", " DELETE"}

VALID_ZONE_DATASETS ==
    {"http_requests", "firewall_events", "dns_logs", "nel_reports", "spectrum_events"}

\* str.strip() on the fields that occur in DatasetInputs.
Strip(d) ==
    CASE d = " dns_logs " -> "dns_logs"
      [] d = " " -> ""
      [] OTHER -> d

\* Python truthiness of an optional string: None and "" are falsy.
StrTruthy(s) == s # Unset /\ s # ""

\* dict.get(k, default)
Get(d, k, default) == IF k \in DOMAIN d THEN d[k] ELSE default

\* [d.strip() for d in raw.split(',') if d.strip()]
get_target_datasets(raw) ==
    SelectSeq([i \in 1..Len(raw) |-> Strip(raw[i])], LAMBDA d : d # "")

\* validate_config without its check of DESTINATION_URL.
validate_config_NoDestination(token, destination, raw) ==
    /\ StrTruthy(token)
    /\ \A i \in 1..Len(get_target_datasets(raw)) :
          get_target_datasets(raw)[i] \in VALID_ZONE_DATASETS

\* validate_config: the token, the destination, then the allow-list.
validate_config(token, destination, raw) ==
    /\ StrTruthy(token)
    /\ StrTruthy(destination)
    /\ \A i \in 1..Len(get_target_datasets(raw)) :
          get_target_datasets(raw)[i] \in VALID_ZONE_DATASETS

\* disable_all_logpush_jobs without its check of API_TOKEN.
TokenMissing_Never(token) == FALSE

\* `if not API_TOKEN` of disable_all_logpush_jobs.
TokenMissing(token) == ~StrTruthy(token)

\* The confirmation compared without regard to case.
Confirmed_AnyCase(input) == input \in {"DELETE", "delete"}

\* `confirmation == 'DELETE'`
Confirmed(input) == input = "DELETE"

\* ------------------------------------------------------------ API responses

ZoneA == [id |-> "z1", name |-> "a.com"]

ZoneB == [id |-> "z2", name |-> "b.com"]

\* The `result` array of one page of GET /zones.
PageResults == {<<>>, <<ZoneA>>, <<ZoneB>>}

Statuses == {200, 201, 400, 500}

ErrorLists ==
    { <<>>, <<[code |-> 1007]>>, <<[code |-> 1002]>>,
      <<[code |-> 1002], [code |-> 1007]>> }

\* result_info of a zone page: with or without total_pages.
ResultInfos(maxTotal) ==
    {[count |-> 0]} \cup {[count |-> 0, total_pages |-> n] : n \in 0..maxTotal}

ZoneBodies(maxTotal) ==
    {[success |-> TRUE, result |-> z, result_info |-> ri] :
        z \in PageResults, ri \in ResultInfos(maxTotal)}
    \cup {[success |-> TRUE, result |-> z] : z \in PageResults}
    \cup {[success |-> FALSE, errors |-> <<[code |-> 1002]>>], [errors |-> <<>>]}

\* A response: the transport raised, or a status line and a JSON body.
Responses(bodies) ==
    {[exc |-> TRUE]} \cup {[exc |-> FALSE, status |-> s, body |-> b] : s \in Statuses, b \in bodies}

MutatorBodies ==
    {[success |-> s, errors |-> e] : s \in BOOLEAN, e \in ErrorLists}
    \cup {[errors |-> e] : e \in ErrorLists}
    \cup {[success |-> s] : s \in BOOLEAN}

JobOn(id) == [id |-> id, name |-> "job", enabled |-> TRUE]

JobOff(id) == [id |-> id, name |-> "job", enabled |-> FALSE]

JobNoFlag(id) == [id |-> id]

\* The `result` array of GET /zones/{id}/logpush/jobs.
JobLists ==
    { <<>>,
      <<JobOn("j1")>>,
      <<JobOff("j1"), JobOn("j2")>>,
      <<JobOn("j1"), JobNoFlag("j2")>> }

JobBodies ==
    {[success |-> TRUE, result |-> jl] : jl \in JobLists}
    \cup {[success |-> TRUE], [success |-> FALSE, errors |-> <<[code |-> 1002]>>]}

\* response.raise_for_status(): HTTPError for a 4xx or 5xx status.
RaisesForStatus(r) == r.status >= 400 /\ r.status < 600

\* ------------------------------------------------------- the pure decisions

\* all_zones.extend(data['result'])
Extend(all, result) == all \o result

\* result_info.get('total_pages', 1) of data.get('result_info', {})
TotalPages(body) == Get(Get(body, "result_info", [count |-> 0]), "total_pages", 1)

\* The break taken only once page is past total_pages.
PageDone_Strict(p, total) == p > total

\* `if page >= total_pages: break`
PageDone(p, total) == p >= total

\* One pass of the while loop of get_all_zones on response r:
\* "fail" (return []), "done" (break, return all_zones) or "more" (page += 1).
ZonesStep(r, p) ==
    IF r.exc \/ RaisesForStatus(r) THEN "fail"
    ELSE IF ~Get(r.body, "success", FALSE) THEN "fail"
    ELSE IF PageDone(p, TotalPages(r.body)) THEN "done"
    ELSE "more"

HasDuplicateCode(errors) == \E i \in 1..Len(errors) : errors[i].code = 1007

\* The status line create_logpush_job prints for response r.
CreateLabel(r) ==
    IF r.exc THEN "FAILED"
    ELSE IF r.status = 200 \/ r.status = 201
         THEN IF Get(r.body, "success", FALSE) THEN "SUCCESS" ELSE "FAILED"
    ELSE IF r.status = 400
         THEN IF HasDuplicateCode(Get(r.body, "errors", <<>>)) THEN "SKIPPED" ELSE "FAILED"
    ELSE "FAILED"

\* The value create_logpush_job returns for response r.
CreateResult(r) ==
    IF r.exc THEN FALSE
    ELSE IF r.status = 200 \/ r.status = 201 THEN Get(r.body, "success", FALSE)
    ELSE FALSE

\* The value disable_logpush_job / delete_logpush_job return for response r.
MutateResult(r) ==
    IF r.exc THEN FALSE
    ELSE IF r.status = 200 THEN Get(r.body, "success", FALSE)
    ELSE FALSE

\* get_logpush_jobs: the list it returns for response r.
JobsOf(r) ==
    IF r.exc \/ RaisesForStatus(r) THEN <<>>
    ELSE IF Get(r.body, "success", FALSE) THEN Get(r.body, "result", <<>>)
    ELSE <<>>

\* The job loop without its skip of disabled jobs.
SkipJob_Never(delete_jobs, job) == FALSE

\* The skip of disabled jobs taken in the delete flow too.
SkipJob_AlsoOnDelete(delete_jobs, job) == ~Get(job, "enabled", FALSE)

\* `if not delete_jobs and not job_enabled`, job_enabled = job.get('enabled', False)
SkipJob(delete_jobs, job) == ~delete_jobs /\ ~Get(job, "enabled", FALSE)

\* The tally without its else branch.
Tally_DropFailures(ok, s, f) == IF ok THEN <<s + 1, f>> ELSE <<s, f>>

\* The counters after one outcome: success_count += 1 or failed_count += 1.
Tally(ok, s, f) == IF ok THEN <<s + 1, f>> ELSE <<s, f + 1>>

\* The dataset loop left at the first failed call of a zone.
NextCreatePos_BreakOnFailure(z, d, nd, ok) ==
    IF d < nd /\ ok THEN <<z, d + 1>> ELSE <<z + 1, 1>>

\* The nested for loops of main: the position after the call at (zone z,
\* dataset d) of nd datasets; ok is the call's outcome, which the loops ignore.
NextCreatePos(z, d, nd, ok) == IF d < nd THEN <<z, d + 1>> ELSE <<z + 1, 1>>

\* `if not zones` of main and disable_all_logpush_jobs.
NoZones(zs) == zs = <<>>

\* ------------------------------------------------------------------- state

VARIABLES
    action,                 \* args.action
    API_TOKEN, DESTINATION_URL, LOGPUSH_DATASETS_RAW,
    confirmation,           \* input() of the delete branch, Unset before it
    pc,                     \* where the script stands
    exit_status,            \* the process's exit status (0 unless sys.exit(1))
    page, all_zones,        \* locals of get_all_zones
    zones,                  \* what get_all_zones returned
    zi, di,                 \* the zone loop's and the dataset loop's position
    jobs, ji,               \* the current zone's job list and the position in it
    success_count, failed_count, total_jobs,
    \* What the network and the terminal saw (not program state):
    reqPages,               \* the page of every GET /zones, in order
    served,                 \* the zones of every successful page, in order
    firstTotal,             \* the total_pages of the first successful page (0: none yet)
    uniform,                \* every successful page so far reported firstTotal
    failedAt,               \* the number of the GET /zones that failed (0: none)
    posts,                  \* every POST: <<zone id, dataset>>, in order
    zoneLog,                \* every PUT / DELETE of the current zone, in order
    calls,                  \* outbound calls by kind
    processed,              \* loop iterations over a dataset or a job so far
    jobsReturned,           \* jobs the job reader has returned so far
    printed                 \* status lines printed, by label

cfgVars == <<action, API_TOKEN, DESTINATION_URL, LOGPUSH_DATASETS_RAW>>

listVars == <<page, all_zones, zones>>

loopVars == <<zi, di, jobs, ji>>

countVars == <<success_count, failed_count, total_jobs>>

listGhosts == <<reqPages, served, firstTotal, uniform, failedAt>>

callGhosts == <<posts, zoneLog, calls, processed, jobsReturned, printed>>

vars == <<cfgVars, confirmation, pc, exit_status, listVars, loopVars, countVars,
          listGhosts, callGhosts>>

target_datasets == get_target_datasets(LOGPUSH_DATASETS_RAW)

delete_jobs == action = "delete"

Terminated == pc \in {"done", "exited"}

Init ==
    /\ action \in {"create", "disable", "delete"}
    /\ API_TOKEN \in Tokens
    /\ DESTINATION_URL \in Destinations
    /\ LOGPUSH_DATASETS_RAW \in DatasetInputs
    \* disable_all_logpush_jobs never reads the dataset list: one value, an
    \* invalid one, stands for all of them there.
    /\ action # "create" => LOGPUSH_DATASETS_RAW = <<"http_requests", "bogus">>
    /\ confirmation = Unset
    /\ pc = "start"
    /\ exit_status = 0
    /\ page = 1
    /\ all_zones = <<>>
    /\ zones = <<>>
    /\ zi = 1 /\ di = 1 /\ jobs = <<>> /\ ji = 1
    /\ success_count = 0 /\ failed_count = 0 /\ total_jobs = 0
    /\ reqPages = <<>> /\ served = <<>> /\ firstTotal = 0 /\ uniform = TRUE /\ failedAt = 0
    /\ posts = <<>> /\ zoneLog = <<>>
    /\ calls = [zones |-> 0, jobs |-> 0, post |-> 0, put |-> 0, delete |-> 0]
    /\ processed = 0
    /\ jobsReturned = 0
    /\ printed = [SUCCESS |-> 0, SKIPPED |-> 0, FAILED |-> 0]

\* ----------------------------------------------------------------- actions

\* sys.exit(code)
Exit(code) == pc' = "exited" /\ exit_status' = code

\* The __main__ block: the action chosen on the command line; the delete
\* branch prompts first and goes on only for the literal DELETE.
Dispatch ==
    /\ pc = "start"
    /\ IF action = "create" THEN
          /\ pc' = "main"
          /\ UNCHANGED <<confirmation, exit_status>>
       ELSE IF action = "disable" THEN
          /\ pc' = "disable_all"
          /\ UNCHANGED <<confirmation, exit_status>>
       ELSE \E input \in ConfirmInputs :
          /\ confirmation' = input
          /\ IF Confirmed(input)
             THEN pc' = "disable_all" /\ UNCHANGED exit_status
             ELSE Exit(0)
    /\ UNCHANGED <<cfgVars, listVars, loopVars, countVars, listGhosts, callGhosts>>

\* main, up to the call of get_all_zones.
MainValidate ==
    /\ pc = "main"
    /\ IF validate_config(API_TOKEN, DESTINATION_URL, LOGPUSH_DATASETS_RAW)
       THEN pc' = "list" /\ UNCHANGED exit_status
       ELSE Exit(1)
    /\ UNCHANGED <<cfgVars, confirmation, listVars, loopVars, countVars, listGhosts, callGhosts>>

\* disable_all_logpush_jobs, up to the call of get_all_zones.
CheckToken ==
    /\ pc = "disable_all"
    /\ IF TokenMissing(API_TOKEN)
       THEN Exit(1)
       ELSE pc' = "list" /\ UNCHANGED exit_status
    /\ UNCHANGED <<cfgVars, confirmation, listVars, loopVars, countVars, listGhosts, callGhosts>>

\* One pass of the while loop of get_all_zones: GET /zones?page=page answered
\* by r.  On return the locals leave scope (page and all_zones are reset).
ZonesPass(r) ==
    LET step == ZonesStep(r, page)
        got == IF step = "fail" THEN all_zones ELSE Extend(all_zones, r.body.result)
    IN /\ IF step = "more"
          THEN /\ page' = page + 1
               /\ all_zones' = got
               /\ UNCHANGED <<zones, pc>>
          ELSE /\ zones' = IF step = "fail" THEN <<>> ELSE got
               /\ page' = 1
               /\ all_zones' = <<>>
               /\ pc' = "listed"
       /\ reqPages' = Append(reqPages, page)
       /\ calls' = [calls EXCEPT !.zones = @ + 1]
       /\ IF step = "fail"
          THEN /\ failedAt' = Len(reqPages) + 1
               /\ UNCHANGED <<served, firstTotal, uniform>>
          ELSE LET info == Get(r.body, "result_info", [count |-> 0])
                   has == "total_pages" \in DOMAIN info
               IN /\ served' = served \o r.body.result
                  /\ UNCHANGED failedAt
                  /\ firstTotal' = IF reqPages = <<>> /\ has
                                   THEN info.total_pages ELSE firstTotal
                  /\ uniform' = /\ uniform
                                /\ has
                                /\ reqPages # <<>> => info.total_pages = firstTotal

FetchZonesPage ==
    /\ pc = "list"
    /\ \E r \in Responses(ZoneBodies(MaxPages)) : ZonesPass(r)
    /\ UNCHANGED <<cfgVars, confirmation, exit_status, loopVars, countVars,
                   posts, zoneLog, processed, jobsReturned, printed>>

\* `if not zones: sys.exit(1)` in main and in disable_all_logpush_jobs; the
\* counters the code sets to 0 next are 0 since Init.
CheckZones ==
    /\ pc = "listed"
    /\ IF NoZones(zones)
       THEN Exit(1)
       ELSE /\ pc' = IF action = "create" THEN "create_loop" ELSE "zone_loop"
            /\ UNCHANGED exit_status
    /\ UNCHANGED <<cfgVars, confirmation, listVars, loopVars, countVars, listGhosts, callGhosts>>

\* One pass of the inner loop of main: create_logpush_job for zone zi and
\* dataset di, one POST answered by r, then the tally.
CreateStep ==
    /\ pc = "create_loop"
    /\ zi <= Len(zones)
    /\ target_datasets # <<>>
    /\ \E r \in Responses(MutatorBodies) :
          LET ok == CreateResult(r)
              t == Tally(ok, success_count, failed_count)
              nxt == NextCreatePos(zi, di, Len(target_datasets), ok)
          IN /\ success_count' = t[1]
             /\ failed_count' = t[2]
             /\ zi' = nxt[1]
             /\ di' = nxt[2]
             /\ printed' = [printed EXCEPT ![CreateLabel(r)] = @ + 1]
    /\ posts' = Append(posts, <<zones[zi].id, target_datasets[di]>>)
    /\ calls' = [calls EXCEPT !.post = @ + 1]
    /\ processed' = processed + 1
    /\ UNCHANGED <<cfgVars, confirmation, pc, exit_status, listVars, jobs, ji, total_jobs,
                   listGhosts, zoneLog, jobsReturned>>

\* The head of the zone loop of disable_all_logpush_jobs: get_logpush_jobs
\* for zone zi, one GET answered by r; an empty list moves to the next zone.
FetchJobs ==
    /\ pc = "zone_loop"
    /\ zi <= Len(zones)
    /\ \E r \in Responses(JobBodies) :
          LET got == JobsOf(r)
          IN /\ jobs' = got
             /\ IF got = <<>>
                THEN /\ zi' = zi + 1
                     /\ UNCHANGED <<pc, ji, total_jobs>>
                ELSE /\ ji' = 1
                     /\ total_jobs' = total_jobs + Len(got)
                     /\ pc' = "job_loop"
                     /\ UNCHANGED zi
             /\ jobsReturned' = jobsReturned + Len(got)
    /\ zoneLog' = <<>>
    /\ calls' = [calls EXCEPT !.jobs = @ + 1]
    /\ UNCHANGED <<cfgVars, confirmation, exit_status, listVars, di, success_count,
                   failed_count, listGhosts, posts, processed, printed>>

\* One pass of the job loop: job ji of the current zone is skipped, or
\* deleted or disabled with one DELETE or PUT answered by r.
ProcessJob ==
    /\ pc = "job_loop"
    /\ LET job == jobs[ji]
           job_id == Get(job, "id", Unset)
       IN IF SkipJob(delete_jobs, job) THEN
             /\ success_count' = success_count + 1
             /\ printed' = [printed EXCEPT !.SKIPPED = @ + 1]
             /\ UNCHANGED <<failed_count, zoneLog, calls>>
          ELSE \E r \in Responses(MutatorBodies) :
             LET ok == MutateResult(r)
                 t == Tally(ok, success_count, failed_count)
                 method == IF delete_jobs THEN "DELETE" ELSE "PUT"
             IN /\ success_count' = t[1]
                /\ failed_count' = t[2]
                /\ printed' = [printed EXCEPT ![IF ok THEN "SUCCESS" ELSE "FAILED"] = @ + 1]
                /\ zoneLog' = Append(zoneLog, <<method, zones[zi].id, job_id>>)
                /\ calls' = IF delete_jobs THEN [calls EXCEPT !.delete = @ + 1]
                                           ELSE [calls EXCEPT !.put = @ + 1]
    /\ processed' = processed + 1
    /\ IF ji < Len(jobs)
       THEN ji' = ji + 1 /\ UNCHANGED <<pc, zi>>
       ELSE ji' = 1 /\ zi' = zi + 1 /\ pc' = "zone_loop"
    /\ UNCHANGED <<cfgVars, confirmation, exit_status, listVars, di, jobs, total_jobs,
                   listGhosts, posts, jobsReturned>>

\* The summary after the loops; the script then ends with status 0.
Summary ==
    /\ \/ pc = "create_loop" /\ (zi > Len(zones) \/ target_datasets = <<>>)
       \/ pc = "zone_loop" /\ zi > Len(zones)
    /\ pc' = "done"
    /\ UNCHANGED <<cfgVars, confirmation, exit_status, listVars, loopVars, countVars,
                   listGhosts, callGhosts>>

Next ==
    \/ Dispatch
    \/ MainValidate
    \/ CheckToken
    \/ FetchZonesPage
    \/ CheckZones
    \/ CreateStep
    \/ FetchJobs
    \/ ProcessJob
    \/ Summary

Spec == Init /\ [][Next]_vars

\* ------------------------------------------- an API whose page count grows

\* The API answers GET /zones?page=page with an empty page and a total_pages
\* one above the page asked for.  The script's page then grows without
\* bound; page numbers above MaxPages + 1 are folded onto MaxPages and
\* MaxPages + 1 (the pass reads page only to compare it with this
\* total_pages), and the folded requests are not added to the logs.
GrowingResponse(p) ==
    [exc |-> FALSE, status |-> 200,
     body |-> [success |-> TRUE, result |-> <<>>,
               result_info |-> [count |-> 0, total_pages |-> p + 1]]]

FetchZonesPageGrowing ==
    /\ pc = "list"
    /\ page >= MaxPages
    /\ ZonesStep(GrowingResponse(page), page) = "more"
    /\ page' = IF page + 1 > MaxPages + 1 THEN MaxPages ELSE page + 1
    /\ all_zones' = Extend(all_zones, GrowingResponse(page).body.result)
    /\ UNCHANGED <<cfgVars, confirmation, pc, exit_status, zones, loopVars, countVars,
                   listGhosts, callGhosts>>

NextGrow == Next \/ FetchZonesPageGrowing

\* The script always takes its next step: it is one sequential process and
\* every call it makes returns or times out.
GrowSpec == Init /\ [][NextGrow]_vars /\ WF_vars(NextGrow)

\* ------------------------------------------------------------------ claims

\* Outbound calls of every kind issued so far.
TotalCalls == calls.zones + calls.jobs + calls.post + calls.put + calls.delete

\* The create flow's configuration is invalid, in the claim's words: the
\* credential or the destination is absent, or a requested dataset is outside
\* the allow-list.
CreateConfigInvalid ==
    /\ action = "create"
    /\ \/ ~StrTruthy(API_TOKEN)
       \/ ~StrTruthy(DESTINATION_URL)
       \/ \E i \in 1..Len(target_datasets) : target_datasets[i] \notin VALID_ZONE_DATASETS

\* A disable flow, or a delete flow that was confirmed, runs without credential.
CredentialMissing ==
    /\ action = "disable" \/ (action = "delete" /\ confirmation = "DELETE")
    /\ ~StrTruthy(API_TOKEN)

\* Zone listing ran and failed or returned zero zones.
ListingEmpty == reqPages # <<>> /\ pc # "list" /\ zones = <<>>

\* C1: two create calls with identical zone and dataset, the first answered
\* "created" and the second HTTP 400 with code 1007 ("skipped"), are never
\* counted as a failure: the create flow's failed count stays 0.
C1_SkipIsNotAFailure ==
    ( /\ action = "create"
      /\ Len(posts) = 2
      /\ posts[1] = posts[2]
      /\ printed = [SUCCESS |-> 1, SKIPPED |-> 1, FAILED |-> 0] )
    => failed_count = 0

\* The POSTs the create flow owes: one per (zone, dataset), zones in listing
\* order, datasets in configured order within each zone.
ExpectedPosts ==
    [k \in 1..(Len(zones) * Len(target_datasets)) |->
        <<zones[((k - 1) \div Len(target_datasets)) + 1].id,
          target_datasets[((k - 1) % Len(target_datasets)) + 1]>>]

\* C2: in the create flow the POSTs issued are at every moment a prefix of
\* the expected ones, each pair once and in order whatever the earlier
\* outcomes, and at the summary they are all of them.
C2_OneCreatePerPair ==
    action = "create" =>
        /\ Len(posts) <= Len(ExpectedPosts)
        /\ posts = SubSeq(ExpectedPosts, 1, Len(posts))
        /\ pc = "done" => posts = ExpectedPosts

\* C2 witness: two zones and two datasets, every call failed, four POSTs.
C2_Witness ==
    /\ action = "create"
    /\ pc = "done"
    /\ Len(zones) = 2
    /\ Len(posts) = 4
    /\ failed_count = 4

\* The mutating calls the disable or delete flow owes for the jobs js of zone
\* zid: a PUT per enabled job, or a DELETE per job.
ExpectedCalls(method, zid, js) ==
    LET due == IF method = "DELETE" THEN js
               ELSE SelectSeq(js, LAMBDA j : Get(j, "enabled", FALSE))
    IN [i \in 1..Len(due) |-> <<method, zid, due[i].id>>]

\* The jobs of the current zone that the job loop has been through.
JobsDone == IF pc = "job_loop" THEN SubSeq(jobs, 1, ji - 1) ELSE jobs

\* The zone the job list in `jobs` belongs to.
JobsZone == IF pc = "job_loop" THEN zones[zi].id ELSE zones[zi - 1].id

\* C3 (state part): in the disable flow the PUTs issued for a zone are
\* exactly one per enabled job gone through, in order, none for a job that
\* is disabled or carries no enabled flag; no other mutating call is made.
C3_PutsMatchEnabledJobs ==
    action = "disable" =>
        /\ calls.post = 0 /\ calls.delete = 0
        /\ calls.jobs > 0 => zoneLog = ExpectedCalls("PUT", JobsZone, JobsDone)

\* C3 (step part): the pass over an already disabled job adds one to
\* success_count and issues no call.
C3_SkipCountsAsSuccess ==
    ( /\ action = "disable"
      /\ pc = "job_loop"
      /\ ~Get(jobs[ji], "enabled", FALSE)
      /\ processed' = processed + 1 )
    => /\ success_count' = success_count + 1
       /\ failed_count' = failed_count
       /\ calls' = calls
       /\ zoneLog' = zoneLog

\* C3: in the disable flow an already disabled job is counted as a success
\* with no mutating call, and an enabled job gets exactly one PUT.
C3_DisableFlow == [](C3_PutsMatchEnabledJobs) /\ [][C3_SkipCountsAsSuccess]_vars

\* C3 witness: a zone with a disabled and an enabled job is finished: one
\* PUT, and the disabled job counted as a success.
C3_Witness ==
    /\ action = "disable"
    /\ pc = "zone_loop"
    /\ jobs = <<JobOff("j1"), JobOn("j2")>>
    /\ zoneLog = <<<<"PUT", zones[zi - 1].id, "j2">>>>
    /\ printed.SKIPPED = 1
    /\ success_count >= 1

\* C4: in the delete action, unless the confirmation typed is exactly
\* DELETE no request of any kind is issued, and any other input ends the
\* process with exit status 0.
C4_DeleteNeedsConfirmation ==
    (action = "delete" /\ confirmation # "DELETE") =>
        /\ TotalCalls = 0
        /\ zoneLog = <<>>
        /\ confirmation # Unset => (pc = "exited" /\ exit_status = 0)

\* C4 witness: the lower-case answer cancelled the delete.
C4_Witness ==
    /\ action = "delete"
    /\ confirmation = "delete"
    /\ pc = "exited"

\* C5: in the delete flow the DELETEs issued for a zone are exactly one per
\* job gone through, enabled or not, in order, whatever the outcome of the
\* earlier ones; over the run there is one DELETE per pass of the job loop,
\* and at the summary one per job the job reader returned.
C5_DeleteEveryJob ==
    action = "delete" =>
        /\ calls.post = 0 /\ calls.put = 0
        /\ calls.jobs > 0 => zoneLog = ExpectedCalls("DELETE", JobsZone, JobsDone)
        /\ calls.delete = processed
        /\ pc = "done" => calls.delete = jobsReturned

\* C5 witness: in the second zone a disabled and an enabled job were both
\* deleted although every delete of the run failed.
C5_Witness ==
    /\ action = "delete"
    /\ pc = "zone_loop"
    /\ zi = 3
    /\ jobs = <<JobOff("j1"), JobOn("j2")>>
    /\ Len(zoneLog) = 2
    /\ success_count = 0
    /\ failed_count >= 3

\* The pages 1..n in increasing order.
PagesUpTo(n) == [i \in 1..n |-> i]

\* Zone listing ran to its end with every page request succeeding and every
\* page reporting the same total_pages, firstTotal.
ListedAllOk == reqPages # <<>> /\ pc # "list" /\ failedAt = 0 /\ uniform

\* A page request failed: it was the last one, and the result is empty.
C6_FailureStopsListing ==
    failedAt > 0 => (pc # "list" /\ Len(reqPages) = failedAt /\ zones = <<>>)

\* C6 as stated: with N total pages reported and every page request
\* succeeding, exactly N requests are issued, for pages 1..N, and the
\* result is the concatenation of the pages; a failed page request stops
\* listing with an empty result.
C6_Original ==
    /\ ListedAllOk => (reqPages = PagesUpTo(firstTotal) /\ zones = served)
    /\ C6_FailureStopsListing

\* C6 amended: exactly max(N, 1) requests are issued, for pages
\* 1..max(N, 1) (the first page is requested before any total_pages is
\* known, so a reported total of 0 still costs one request); the rest as
\* stated.  Requests are for pages 1, 2, ... at every moment.
C6_Amended ==
    /\ reqPages = PagesUpTo(Len(reqPages))
    /\ ListedAllOk =>
          /\ reqPages = PagesUpTo(IF firstTotal > 1 THEN firstTotal ELSE 1)
          /\ zones = served
    /\ C6_FailureStopsListing

\* C6 witness: two pages reported by both responses, both fetched, the
\* result their concatenation.
C6_Witness ==
    /\ ListedAllOk
    /\ firstTotal = 2
    /\ reqPages = <<1, 2>>
    /\ zones = <<ZoneA, ZoneB>>

\* C7: a flow that has ended exited nonzero exactly when its configuration
\* was invalid (create), its credential missing (disable, confirmed delete),
\* or zone listing failed or returned no zone; every other run, also one
\* whose calls all failed and a cancelled delete, ends with status 0.
C7_ExitStatus ==
    Terminated =>
        (exit_status # 0 <=> (CreateConfigInvalid \/ CredentialMissing \/ ListingEmpty))

\* C7 witness: a disable flow in which every job call failed ends with 0.
C7_Witness ==
    /\ pc = "done"
    /\ exit_status = 0
    /\ action = "disable"
    /\ success_count = 0
    /\ failed_count >= 2

\* C8: a run that exited nonzero issued no POST, PUT or DELETE and no job
\* read; if the cause was the configuration it issued no call at all.
C8_NoCallsBeforeNonzeroExit ==
    (pc = "exited" /\ exit_status # 0) =>
        /\ calls.post = 0 /\ calls.put = 0 /\ calls.delete = 0 /\ calls.jobs = 0
        /\ posts = <<>> /\ zoneLog = <<>>
        /\ (CreateConfigInvalid \/ CredentialMissing) => TotalCalls = 0

\* C8 witness: the second page request failed; the run exited nonzero with
\* two listing requests and nothing else.
C8_Witness ==
    /\ pc = "exited"
    /\ exit_status = 1
    /\ calls.zones = 2
    /\ TotalCalls = 2

\* C9: every flow terminates, whatever the API answers.
C9_Terminates == <>Terminated

\* C10 (state part): success_count + failed_count is the number of items
\* gone through; total_jobs is the number of jobs the job reader returned;
\* at the summary the sum is zones x datasets (create) or total_jobs
\* (disable, delete).
C10_CountersAddUp ==
    /\ success_count + failed_count = processed
    /\ total_jobs = jobsReturned
    /\ (pc = "done" /\ action = "create") =>
          success_count + failed_count = Len(zones) * Len(target_datasets)
    /\ (pc = "done" /\ action # "create") =>
          success_count + failed_count = total_jobs

\* C10 (step part): a zone whose job listing failed or was empty changes
\* none of the three counters.
C10_EmptyZoneCountsNothing ==
    (pc = "zone_loop" /\ zi' = zi + 1 /\ jobs' = <<>>) => UNCHANGED countVars

\* C10: counter conservation in the three flows.
C10_CounterConservation == [](C10_CountersAddUp) /\ [][C10_EmptyZoneCountsNothing]_vars

\* C10 witness: a delete flow over two zones, one without jobs, the other
\* with two, one delete failed and one succeeded.
C10_Witness ==
    /\ pc = "done"
    /\ action = "delete"
    /\ Len(zones) = 2
    /\ calls.jobs = 2
    /\ total_jobs = 2
    /\ success_count = 1
    /\ failed_count = 1

====
